---------------------------- MODULE Spec2Model ----------------------------
(***************************************************************************)
(* Model of the calculator: the big.js Decimal type (Big), the reducer     *)
(* calculate/operate and the CalcApp button handler.                       *)
(*                                                                         *)
(* JavaScript strings are sequences of one-character strings, so that      *)
(* parsing and formatting are computed character by character.  JavaScript *)
(* null is the value Null; an array slot that reads as undefined is UNDEF. *)
(* The characters U+00F7 and U+00D7 are written "DIVIDE_SIGN" and          *)
(* "MULTIPLY_SIGN".                                                        *)
(***************************************************************************)
EXTENDS Integers, Sequences, FiniteSets, TLC

(***************************************************************************)
(* Bounds of the model.                                                    *)
(***************************************************************************)
MaxPresses == 5
MaxChain == 6
MaxDigits == 2
MaxChars == 4
MaxIterations == 8
MaxPlaces == 20

(***************************************************************************)
(* big.js editable defaults and constants.                                 *)
(***************************************************************************)
DP == 20
RM == 1
MAX_DP == 1000000
NE == -7
PE == 21

INVALID_NUMBER == "[big.js] Invalid number"
INVALID_DP == "[big.js] Invalid decimal places"
INVALID_RM == "[big.js] Invalid rounding mode"
DIV_BY_ZERO == "[big.js] Division by zero"
UNKNOWN_OPERATION == "Unknown operation"
NoError == "none"

UNDEF == -1
Null == <<"null">>

(***************************************************************************)
(* Results of calls that may throw.                                        *)
(***************************************************************************)
Ok(v) == [err |-> NoError, val |-> v]
Throw(m) == [err |-> m]

(***************************************************************************)
(* The loops of the source are recursive operators that carry the loop     *)
(* variables.  Done(v) is TRUE; it makes TLC compute the value of a loop   *)
(* variable at each iteration instead of suspending it until the loop ends.*)
(***************************************************************************)
Done(v) == v = v

(***************************************************************************)
(* JavaScript string and array primitives.                                 *)
(***************************************************************************)
DigitChars == <<"0", "1", "2", "3", "4", "5", "6", "7", "8", "9">>
IsDigitChar(ch) == \E d \in 1..10 : DigitChars[d] = ch
DigitVal(ch) == (CHOOSE d \in 1..10 : DigitChars[d] = ch) - 1
DigitChar(d) == DigitChars[d + 1]

\* arr[i] with a 0-based index: undefined outside the array
At(arr, i) == IF i >= 0 /\ i < Len(arr) THEN arr[i + 1] ELSE UNDEF
\* str.charAt(i) with a 0-based index: "" outside the string
CharAt(str, i) == IF i >= 0 /\ i < Len(str) THEN str[i + 1] ELSE ""
\* str.slice(from) / str.substring(0, to) / arr.slice(0, to), 0-based
SliceFrom(str, from) == SubSeq(str, from + 1, Len(str))
SliceTo(str, to) == SubSeq(str, 1, IF to < Len(str) THEN to ELSE Len(str))
\* str.indexOf(ch): 0-based index of the first occurrence, -1 if none
IndexOf(str, ch) ==
  IF \E i \in 1..Len(str) : str[i] = ch
  THEN (CHOOSE i \in 1..Len(str) : str[i] = ch /\ \A j \in 1..(i - 1) : str[j] # ch) - 1
  ELSE -1
\* str.search(/e/i)
SearchE(str) ==
  IF \E i \in 1..Len(str) : str[i] \in {"e", "E"}
  THEN (CHOOSE i \in 1..Len(str) :
          str[i] \in {"e", "E"} /\ \A j \in 1..(i - 1) : str[j] \notin {"e", "E"}) - 1
  ELSE -1
\* str.includes(ch)
Includes(str, ch) == \E i \in 1..Len(str) : str[i] = ch
\* str.replace('.', ''): removes the first occurrence
RemoveFirst(str, ch) ==
  LET i == IndexOf(str, ch)
  IN IF i < 0 THEN str ELSE SubSeq(str, 1, i) \o SubSeq(str, i + 2, Len(str))
\* a run of n copies of v
RECURSIVE Repeat(_, _)
Repeat(v, n) == IF n <= 0 THEN <<>> ELSE <<v>> \o Repeat(v, n - 1)
\* arr.reverse()
RECURSIVE Reverse(_)
Reverse(arr) == IF arr = <<>> THEN <<>> ELSE Reverse(Tail(arr)) \o <<Head(arr)>>
\* x / 10 | 0 and x % 10 for the non-negative x of the digit loops
Div10(x) == x \div 10
Mod10(x) == x % 10

\* String(n) of a JavaScript integer
RECURSIVE NatToStr(_)
NatToStr(n) == IF n < 10 THEN <<DigitChar(n)>> ELSE NatToStr(n \div 10) \o <<DigitChar(n % 10)>>
IntToStr(n) == IF n < 0 THEN <<"-">> \o NatToStr(0 - n) ELSE NatToStr(n)
\* +str of an optionally signed run of digits
RECURSIVE DigitsToNat(_)
DigitsToNat(str) ==
  IF str = <<>> THEN 0 ELSE DigitsToNat(SubSeq(str, 1, Len(str) - 1)) * 10 + DigitVal(str[Len(str)])
StrToInt(str) ==
  IF CharAt(str, 0) = "-" THEN 0 - DigitsToNat(Tail(str))
  ELSE IF CharAt(str, 0) = "+" THEN DigitsToNat(Tail(str))
  ELSE DigitsToNat(str)
\* xc.join('')
RECURSIVE Join(_)
Join(c) == IF c = <<>> THEN <<>> ELSE <<DigitChar(Head(c))>> \o Join(Tail(c))
\* value += '' of null or of a string
ToStr(v) == IF v = Null THEN <<"n", "u", "l", "l">> ELSE v

(***************************************************************************)
(* NUMERIC: an optional '-', then digits with an optional '.' and optional *)
(* digits, or a '.' and digits; then optionally e or E, an optional sign   *)
(* and digits; nothing else.                                               *)
(***************************************************************************)
\* the 0-based index after the run of digits that starts at index i
RECURSIVE SkipDigits(_, _)
SkipDigits(str, i) == IF IsDigitChar(CharAt(str, i)) THEN SkipDigits(str, i + 1) ELSE i

\* the variant before NUMERIC lacks the i flag: only a lower-case e starts the exponent
NUMERIC_caseSensitive(str) ==
  LET p0 == IF CharAt(str, 0) = "-" THEN 1 ELSE 0
      p1 == SkipDigits(str, p0)
      \* end of the mantissa, or -1 when there is none
      pm == IF p1 > p0
            THEN (IF CharAt(str, p1) = "." THEN SkipDigits(str, p1 + 1) ELSE p1)
            ELSE IF CharAt(str, p0) = "." /\ SkipDigits(str, p0 + 1) > p0 + 1
                 THEN SkipDigits(str, p0 + 1)
                 ELSE -1
      ps == IF CharAt(str, pm + 1) \in {"+", "-"} THEN pm + 2 ELSE pm + 1
  IN /\ pm >= 0
     /\ \/ pm = Len(str)
        \/ /\ CharAt(str, pm) = "e"
           /\ SkipDigits(str, ps) > ps
           /\ SkipDigits(str, ps) = Len(str)
NUMERIC(str) ==
  LET p0 == IF CharAt(str, 0) = "-" THEN 1 ELSE 0
      p1 == SkipDigits(str, p0)
      \* end of the mantissa, or -1 when there is none
      pm == IF p1 > p0
            THEN (IF CharAt(str, p1) = "." THEN SkipDigits(str, p1 + 1) ELSE p1)
            ELSE IF CharAt(str, p0) = "." /\ SkipDigits(str, p0 + 1) > p0 + 1
                 THEN SkipDigits(str, p0 + 1)
                 ELSE -1
      ps == IF CharAt(str, pm + 1) \in {"+", "-"} THEN pm + 2 ELSE pm + 1
  IN /\ pm >= 0
     /\ \/ pm = Len(str)
        \/ /\ CharAt(str, pm) \in {"e", "E"}
           /\ SkipDigits(str, ps) > ps
           /\ SkipDigits(str, ps) = Len(str)

(***************************************************************************)
(* A Big is [s |-> sign, e |-> exponent, c |-> digits].                    *)
(***************************************************************************)
NewBig(s, e, c) == [s |-> s, e |-> e, c |-> c]
\* new Big(k * 0): a zero that keeps the sign k
SignedZero(k) == NewBig(k, 0, <<0>>)

\* the number of leading '0' characters of n
RECURSIVE LeadingZeros(_, _)
LeadingZeros(n, i) == IF i < Len(n) /\ CharAt(n, i) = "0" THEN LeadingZeros(n, i + 1) ELSE i
\* for (; nl > 0 && n.charAt(--nl) == '0';);
RECURSIVE TrailingZeros(_, _)
TrailingZeros(n, nl) ==
  IF nl > 0 THEN (IF CharAt(n, nl - 1) = "0" THEN TrailingZeros(n, nl - 1) ELSE nl - 1) ELSE nl
\* for (e = 0; i <= nl;) x.c[e++] = +n.charAt(i++);
RECURSIVE CharsToDigits(_, _, _)
CharsToDigits(n, i, nl) ==
  IF i <= nl THEN <<DigitVal(CharAt(n, i))>> \o CharsToDigits(n, i + 1, nl) ELSE <<>>

\* a variant of parse that forgets the leading zeros in the exponent
parse_leadingZerosKept(value) ==
  LET \* the digits n of the mantissa and its exponent e: zeros are stripped
      Digits(s, n, e) ==
        LET nl == Len(n)
            i == LeadingZeros(n, 0)
        IN IF i = nl THEN Ok(NewBig(s, 0, <<0>>))
           ELSE Ok(NewBig(s, e - 1, CharsToDigits(n, i, TrailingZeros(n, nl))))
      \* n without its point, which was at index e, or -1
      Exponent(s, n, e) ==
        LET i == SearchE(n)
        IN Digits(s, IF i > 0 THEN SliceTo(n, i) ELSE n,
                  IF i > 0 THEN (IF e < 0 THEN i ELSE e) + StrToInt(SliceFrom(n, i + 1))
                  ELSE IF e < 0 THEN Len(n) ELSE e)
      Point(s, n) ==
        LET e == IndexOf(n, ".")
        IN Exponent(s, IF e > -1 THEN RemoveFirst(n, ".") ELSE n, e)
      Sign(n) ==
        IF ~NUMERIC(n) THEN Throw(INVALID_NUMBER)
        ELSE Point(IF CharAt(n, 0) = "-" THEN -1 ELSE 1,
                   IF CharAt(n, 0) = "-" THEN SliceFrom(n, 1) ELSE n)
  IN Sign(ToStr(value))
parse(value) ==
  LET \* the digits n of the mantissa and its exponent e: zeros are stripped
      Digits(s, n, e) ==
        LET nl == Len(n)
            i == LeadingZeros(n, 0)
        IN IF i = nl THEN Ok(NewBig(s, 0, <<0>>))
           ELSE Ok(NewBig(s, e - i - 1, CharsToDigits(n, i, TrailingZeros(n, nl))))
      \* n without its point, which was at index e, or -1
      Exponent(s, n, e) ==
        LET i == SearchE(n)
        IN Digits(s, IF i > 0 THEN SliceTo(n, i) ELSE n,
                  IF i > 0 THEN (IF e < 0 THEN i ELSE e) + StrToInt(SliceFrom(n, i + 1))
                  ELSE IF e < 0 THEN Len(n) ELSE e)
      Point(s, n) ==
        LET e == IndexOf(n, ".")
        IN Exponent(s, IF e > -1 THEN RemoveFirst(n, ".") ELSE n, e)
      Sign(n) ==
        IF ~NUMERIC(n) THEN Throw(INVALID_NUMBER)
        ELSE Point(IF CharAt(n, 0) = "-" THEN -1 ELSE 1,
                   IF CharAt(n, 0) = "-" THEN SliceFrom(n, 1) ELSE n)
  IN Sign(ToStr(value))

(***************************************************************************)
(* stringify(x) as called by P.toString: id, n and k are undefined.        *)
(***************************************************************************)
stringify(x) ==
  LET z == At(x.c, 0) = 0
      e == x.e
      Format(s) ==
        LET n == Len(s)
        IN IF e <= NE \/ e >= PE
           THEN <<s[1]>> \o (IF n > 1 THEN <<".">> \o SliceFrom(s, 1) ELSE <<>>)
                  \o (IF e < 0 THEN <<"e">> ELSE <<"e", "+">>) \o IntToStr(e)
           ELSE IF e < 0 THEN <<"0", ".">> \o Repeat("0", (0 - e) - 1) \o s
           ELSE IF e > 0
                THEN (IF e + 1 > n THEN s \o Repeat("0", e + 1 - n)
                      ELSE IF e + 1 < n THEN SliceTo(s, e + 1) \o <<".">> \o SliceFrom(s, e + 1)
                      ELSE s)
           ELSE IF n > 1 THEN <<s[1]>> \o <<".">> \o SliceFrom(s, 1)
           ELSE s
      Signed(body) == IF x.s < 0 /\ ~z THEN <<"-">> \o body ELSE body
  IN Signed(Format(Join(x.c)))

(***************************************************************************)
(* P.cmp                                                                   *)
(***************************************************************************)
\* the first index below j where the digits differ, or j
RECURSIVE FirstDiff(_, _, _, _)
FirstDiff(xc, yc, i, j) ==
  IF i < j /\ At(xc, i) = At(yc, i) THEN FirstDiff(xc, yc, i + 1, j) ELSE i

\* (cond ^ isneg) ? 1 : -1
XorSign(cond, isneg) == IF cond # isneg THEN 1 ELSE -1

cmp(x, y) ==
  LET xc == x.c
      yc == y.c
      isneg == x.s < 0
      k == Len(xc)
      l == Len(yc)
      j == IF k < l THEN k ELSE l
      i == FirstDiff(xc, yc, 0, j)
  IN IF xc[1] = 0 \/ yc[1] = 0
     THEN (IF xc[1] = 0 THEN (IF yc[1] = 0 THEN 0 ELSE 0 - y.s) ELSE x.s)
     ELSE IF x.s # y.s THEN x.s
     ELSE IF x.e # y.e THEN XorSign(x.e > y.e, isneg)
     ELSE IF i < j THEN XorSign(xc[i + 1] > yc[i + 1], isneg)
     ELSE IF k = l THEN 0 ELSE XorSign(k > l, isneg)

(***************************************************************************)
(* round(x, dp, rm, more)                                                  *)
(***************************************************************************)
\* for (i = xc.length; !xc[--i];) xc.pop();   (the search stops at an empty array)
RECURSIVE StripTrailingZeros(_)
\* the variant before it leaves the zeros in place
StripTrailingZeros_kept(xc) == xc
StripTrailingZeros(xc) ==
  IF xc # <<>> /\ xc[Len(xc)] = 0 THEN StripTrailingZeros(SubSeq(xc, 1, Len(xc) - 1)) ELSE xc
\* for (; xc[0] === 0;) { xc.shift(); --ye; }: the number of leading zeros
RECURSIVE CountLeadingZeros(_)
CountLeadingZeros(xc) ==
  IF xc # <<>> /\ xc[1] = 0 THEN 1 + CountLeadingZeros(Tail(xc)) ELSE 0

\* for (; ++xc[i] > 9;) { xc[i] = 0; if (!i--) { ++x.e; xc.unshift(1); } }
RECURSIVE RoundUp(_, _, _)
RoundUp(xc, i, e) ==
  IF xc[i + 1] + 1 > 9
  THEN (IF i = 0 THEN [c |-> <<1>> \o [xc EXCEPT ![1] = 0], e |-> e + 1]
        ELSE RoundUp([xc EXCEPT ![i + 1] = 0], i - 1, e))
  ELSE [c |-> [xc EXCEPT ![i + 1] = xc[i + 1] + 1], e |-> e]

\* the rounding decision of each mode; xc[i] is the first discarded digit
RoundMore_alwaysUp(xc, i, rm, more) ==
  IF rm = 1 THEN TRUE
  ELSE IF rm = 2
       THEN At(xc, i) > 5
            \/ (At(xc, i) = 5
                /\ (more \/ i < 0 \/ At(xc, i + 1) # UNDEF
                    \/ (At(xc, i - 1) # UNDEF /\ At(xc, i - 1) % 2 = 1)))
  ELSE IF rm = 3 THEN more \/ At(xc, i) # UNDEF \/ i < 0
  ELSE FALSE
RoundMore(xc, i, rm, more) ==
  IF rm = 1 THEN At(xc, i) >= 5
  ELSE IF rm = 2
       THEN At(xc, i) > 5
            \/ (At(xc, i) = 5
                /\ (more \/ i < 0 \/ At(xc, i + 1) # UNDEF
                    \/ (At(xc, i - 1) # UNDEF /\ At(xc, i - 1) % 2 = 1)))
  ELSE IF rm = 3 THEN more \/ At(xc, i) # UNDEF \/ i < 0
  ELSE FALSE

round(x, dp, rm, more) ==
  LET xc == x.c
      i == x.e + dp + 1
  IN IF rm \notin {0, 1, 2, 3} THEN Throw(INVALID_RM)
     ELSE IF i < Len(xc)
     THEN LET up == RoundMore(xc, i, rm, more)
          IN IF i < 1
             THEN (IF up THEN Ok(NewBig(x.s, 0 - dp, <<1>>)) ELSE Ok(NewBig(x.s, 0, <<0>>)))
             ELSE LET cut == SliceTo(xc, i)
                      r == IF up THEN RoundUp(cut, i - 1, x.e) ELSE [c |-> cut, e |-> x.e]
                  IN Ok(NewBig(x.s, r.e, StripTrailingZeros(r.c)))
     ELSE Ok(x)

(***************************************************************************)
(* P.plus and P.minus                                                      *)
(***************************************************************************)
\* t.reverse(); for (; a--;) t.push(0); t.reverse();
PrependZeros(t, a) == Reverse(Reverse(t) \o Repeat(0, a))

\* for (b = 0; a; xc[a] %= 10) b = (xc[--a] = xc[a] + yc[a] + b) / 10 | 0;
RECURSIVE AddLoop(_, _, _, _)
AddLoop(xc, yc, a, b) ==
  IF Done(xc) /\ Done(b) /\ a = 0 THEN [c |-> xc, b |-> b]
  ELSE LET sum == xc[a] + yc[a] + b
       IN AddLoop([xc EXCEPT ![a] = Mod10(sum)], yc, a - 1, Div10(sum))

\* for (i = j; i && !xc[--i];) xc[i] = 9;  --xc[i];
RECURSIVE Borrow(_, _)
Borrow(xc, i) ==
  IF i = 0 THEN [xc EXCEPT ![1] = xc[1] - 1]
  ELSE IF xc[i] = 0 THEN Borrow([xc EXCEPT ![i] = 9], i - 1)
  ELSE [xc EXCEPT ![i] = xc[i] - 1]

\* for (; j > a;) { if (xc[--j] < yc[j]) { borrow; xc[j] += 10; } xc[j] -= yc[j]; }
RECURSIVE SubLoop(_, _, _, _)
SubLoop(xc, yc, j, a) ==
  IF Done(xc) /\ j > a
  THEN LET xb == IF xc[j] < yc[j]
                 THEN LET t == Borrow(xc, j - 1) IN [t EXCEPT ![j] = t[j] + 10]
                 ELSE xc
       IN SubLoop([xb EXCEPT ![j] = xb[j] - yc[j]], yc, j - 1, a)
  ELSE xc

RECURSIVE plus(_, _), minus(_, _)
\* the variants before plus return x, or y, whenever either operand is zero
plus_zeroGivesThis(x, y) ==
  LET a == x.e - y.e
      ye == IF a > 0 THEN x.e ELSE y.e
      \* the carry r.b goes in front of the digits r.c
      Carried(r) ==
        NewBig(y.s, IF r.b # 0 THEN ye + 1 ELSE ye,
               StripTrailingZeros(IF r.b # 0 THEN <<r.b>> \o r.c ELSE r.c))
      \* the longer array is added to
      Ordered(xc, yc) ==
        IF Len(xc) - Len(yc) < 0 THEN Carried(AddLoop(yc, xc, Len(xc), 0))
        ELSE Carried(AddLoop(xc, yc, Len(yc), 0))
  IN IF x.s # y.s THEN minus(x, [y EXCEPT !.s = 0 - y.s])
     ELSE IF x.c[1] = 0 \/ y.c[1] = 0
     THEN x
     ELSE Ordered(IF a < 0 THEN PrependZeros(x.c, 0 - a) ELSE x.c,
                  IF a > 0 THEN PrependZeros(y.c, a) ELSE y.c)
plus_zeroGivesOther(x, y) ==
  LET a == x.e - y.e
      ye == IF a > 0 THEN x.e ELSE y.e
      \* the carry r.b goes in front of the digits r.c
      Carried(r) ==
        NewBig(y.s, IF r.b # 0 THEN ye + 1 ELSE ye,
               StripTrailingZeros(IF r.b # 0 THEN <<r.b>> \o r.c ELSE r.c))
      \* the longer array is added to
      Ordered(xc, yc) ==
        IF Len(xc) - Len(yc) < 0 THEN Carried(AddLoop(yc, xc, Len(xc), 0))
        ELSE Carried(AddLoop(xc, yc, Len(yc), 0))
  IN IF x.s # y.s THEN minus(x, [y EXCEPT !.s = 0 - y.s])
     ELSE IF x.c[1] = 0 \/ y.c[1] = 0
     THEN y
     ELSE Ordered(IF a < 0 THEN PrependZeros(x.c, 0 - a) ELSE x.c,
                  IF a > 0 THEN PrependZeros(y.c, a) ELSE y.c)
plus(x, y) ==
  LET a == x.e - y.e
      ye == IF a > 0 THEN x.e ELSE y.e
      \* the carry r.b goes in front of the digits r.c
      Carried(r) ==
        NewBig(y.s, IF r.b # 0 THEN ye + 1 ELSE ye,
               StripTrailingZeros(IF r.b # 0 THEN <<r.b>> \o r.c ELSE r.c))
      \* the longer array is added to
      Ordered(xc, yc) ==
        IF Len(xc) - Len(yc) < 0 THEN Carried(AddLoop(yc, xc, Len(xc), 0))
        ELSE Carried(AddLoop(xc, yc, Len(yc), 0))
  IN IF x.s # y.s THEN minus(x, [y EXCEPT !.s = 0 - y.s])
     ELSE IF x.c[1] = 0 \/ y.c[1] = 0
     THEN (IF y.c[1] # 0 THEN y ELSE IF x.c[1] # 0 THEN x ELSE SignedZero(x.s))
     ELSE Ordered(IF a < 0 THEN PrependZeros(x.c, 0 - a) ELSE x.c,
                  IF a > 0 THEN PrependZeros(y.c, a) ELSE y.c)

minus(x, y) ==
  LET a0 == x.e - y.e
      a == IF a0 < 0 THEN 0 - a0 ELSE a0
      j0 == IF Len(x.c) < Len(y.c) THEN Len(x.c) ELSE Len(y.c)
      ye == IF a0 > 0 THEN x.e ELSE y.e
      \* is x less than y in magnitude; b0 is where the digits first differ
      Less(b0) ==
        IF a0 # 0 THEN a0 < 0
        ELSE IF b0 < j0 THEN x.c[b0 + 1] < y.c[b0 + 1]
        ELSE Len(x.c) < Len(y.c)
      \* leading zeros of the difference are removed
      Shifted(ys, xc, lz) ==
        IF lz = Len(xc) THEN NewBig(1, 0, <<0>>)
        ELSE NewBig(ys, ye - lz, SubSeq(xc, lz + 1, Len(xc)))
      Stripped(ys, xc) == Shifted(ys, xc, CountLeadingZeros(xc))
      \* xc is the larger magnitude, padded to the length of yc
      Subtract(ys, xc, yc) ==
        Stripped(ys, StripTrailingZeros(
                       SubLoop(xc \o Repeat(0, Len(yc) - Len(xc)), yc, Len(yc), a)))
      Ordered(xlty, xc, yc) ==
        IF xlty THEN Subtract(0 - y.s, yc, xc) ELSE Subtract(y.s, xc, yc)
  IN IF x.s # y.s THEN plus(x, [y EXCEPT !.s = 0 - y.s])
     ELSE IF x.c[1] = 0 \/ y.c[1] = 0
     THEN (IF y.c[1] # 0 THEN [y EXCEPT !.s = 0 - y.s]
           ELSE IF x.c[1] # 0 THEN x ELSE NewBig(1, 0, <<0>>))
     ELSE Ordered(Less(FirstDiff(x.c, y.c, 0, j0)),
                  IF a0 < 0 THEN PrependZeros(x.c, a) ELSE x.c,
                  IF a0 > 0 THEN PrependZeros(y.c, a) ELSE y.c)

(***************************************************************************)
(* P.times                                                                 *)
(***************************************************************************)
\* for (j = a + i; j > i;) { b = c[j] + yc[i] * xc[j - i - 1] + b; c[j--] = b % 10; b = b / 10 | 0; }
RECURSIVE TimesInner(_, _, _, _, _, _)
TimesInner(c, xc, yi, i, j, b) ==
  IF Done(c) /\ Done(b) /\ j > i
  THEN LET t == c[j + 1] + yi * xc[j - i] + b
       IN TimesInner([c EXCEPT ![j + 1] = Mod10(t)], xc, yi, i, j - 1, Div10(t))
  ELSE [c |-> [c EXCEPT ![j + 1] = Mod10(c[j + 1] + b)], b |-> b]

\* for (i = b; i--;) { b = 0; inner loop; c[j] = (c[j] + b) % 10; }
RECURSIVE TimesOuter(_, _, _, _, _)
TimesOuter(c, xc, yc, i, b) ==
  IF Done(c) /\ Done(b) /\ i = 0 THEN [c |-> c, b |-> b]
  ELSE LET r == TimesInner(c, xc, yc[i], i - 1, Len(xc) + i - 1, 0)
       IN TimesOuter(r.c, xc, yc, i - 1, r.b)

times(x, y) ==
  LET ys == IF x.s = y.s THEN 1 ELSE -1
      Carried(r) ==
        NewBig(ys, IF r.b # 0 THEN x.e + y.e + 1 ELSE x.e + y.e,
               StripTrailingZeros(IF r.b # 0 THEN r.c ELSE Tail(r.c)))
      \* the longer array is xc
      Ordered(xc, yc) ==
        Carried(TimesOuter(Repeat(0, Len(xc) + Len(yc)), xc, yc, Len(yc), Len(yc)))
  IN IF x.c[1] = 0 \/ y.c[1] = 0 THEN SignedZero(ys)
     ELSE IF Len(x.c) < Len(y.c) THEN Ordered(y.c, x.c)
     ELSE Ordered(x.c, y.c)

(***************************************************************************)
(* P.div, reading Big.DP and Big.RM as dp and rm                           *)
(***************************************************************************)
\* compare divisor b and remainder r: 1 if b > r, -1 if b < r, 0 if equal
DivCmp(b, r) ==
  LET bl == Len(b)
      rl == Len(r)
      ri == FirstDiff(b, r, 0, bl)
  IN IF bl # rl THEN (IF bl > rl THEN 1 ELSE -1)
     ELSE IF ri < bl THEN (IF b[ri + 1] > r[ri + 1] THEN 1 ELSE -1)
     ELSE 0

\* for (bt = rl == bl ? b : bz; rl;) { if (r[--rl] < bt[rl]) { borrow; r[rl] += 10; } r[rl] -= bt[rl]; }
\* for (; !r[0];) r.shift();
DivSubtract(b, r) ==
  LET bt == IF Len(r) = Len(b) THEN b ELSE <<0>> \o b
      d == SubLoop(r, bt, Len(r), 0)
  IN SubSeq(d, CountLeadingZeros(d) + 1, Len(d))

\* for (n = 0; n < 10; n++) { compare; if (cmp < 0) subtract; else break; }
RECURSIVE DivCount(_, _, _)
DivCount(b, r, n) ==
  LET Compared(c) ==
        IF c < 0 THEN DivCount(b, DivSubtract(b, r), n + 1)
        ELSE [r |-> r, n |-> n, cmp |-> c]
  IN IF n < 10 THEN Compared(DivCmp(b, r)) ELSE [r |-> r, n |-> n, cmp |-> -1]

\* do { ... } while ((ai++ < al || r[0] !== UNDEFINED) && k--);
RECURSIVE DivLoop(_, _, _, _, _, _)
DivLoop(a, b, r, qc, ai, k) ==
  LET digit == IF At(a, ai) = UNDEF THEN 0 ELSE At(a, ai)
      Again(r1, qc1) ==
        IF Done(qc1) /\ Done(r1) /\ (ai < Len(a) \/ r1[1] # UNDEF) /\ k # 0
        THEN DivLoop(a, b, r1, qc1, ai + 1, k - 1)
        ELSE [qc |-> qc1, r |-> r1]
      Counted(t) ==
        Again(IF At(t.r, 0) > 0 /\ t.cmp # 0 THEN t.r \o <<digit>> ELSE <<At(a, ai)>>,
              qc \o <<IF t.cmp # 0 THEN t.n ELSE t.n + 1>>)
  IN Counted(DivCount(b, r, 0))

\* the variant before div looks for a zero dividend before a zero divisor
div_zeroDividendFirst(x, y, dp, rm) ==
  LET a == x.c
      b == y.c
      k == IF x.s = y.s THEN 1 ELSE -1
      bl == Len(b)
      qe == x.e - y.e
      d == dp + qe + 1
      \* the quotient of the digits t.qc, rounded if the loop gave more than d
      Quotient(t) ==
        LET qi == Len(t.qc)
            shift == t.qc[1] = 0 /\ qi # 1
            q == NewBig(k, IF shift THEN qe - 1 ELSE qe, IF shift THEN Tail(t.qc) ELSE t.qc)
        IN IF qi > d THEN round(q, dp, rm, t.r[1] # UNDEF) ELSE Ok(q)
  IN IF dp < 0 \/ dp > MAX_DP THEN Throw(INVALID_DP)
     ELSE IF a[1] = 0 THEN Ok(SignedZero(k))
     ELSE IF b[1] = 0 THEN Throw(DIV_BY_ZERO)
     ELSE Quotient(DivLoop(a, b, SliceTo(a, bl) \o Repeat(0, bl - Len(a)), <<>>, bl,
                           IF d < 0 THEN 0 ELSE d))
div(x, y, dp, rm) ==
  LET a == x.c
      b == y.c
      k == IF x.s = y.s THEN 1 ELSE -1
      bl == Len(b)
      qe == x.e - y.e
      d == dp + qe + 1
      \* the quotient of the digits t.qc, rounded if the loop gave more than d
      Quotient(t) ==
        LET qi == Len(t.qc)
            shift == t.qc[1] = 0 /\ qi # 1
            q == NewBig(k, IF shift THEN qe - 1 ELSE qe, IF shift THEN Tail(t.qc) ELSE t.qc)
        IN IF qi > d THEN round(q, dp, rm, t.r[1] # UNDEF) ELSE Ok(q)
  IN IF dp < 0 \/ dp > MAX_DP THEN Throw(INVALID_DP)
     ELSE IF b[1] = 0 THEN Throw(DIV_BY_ZERO)
     ELSE IF a[1] = 0 THEN Ok(SignedZero(k))
     ELSE Quotient(DivLoop(a, b, SliceTo(a, bl) \o Repeat(0, bl - Len(a)), <<>>, bl,
                           IF d < 0 THEN 0 ELSE d))

(***************************************************************************)
(* P.mod: the quotient is computed with Big.DP = Big.RM = 0.  The variants *)
(* before it divide with the default settings DP and RM, and return x for a *)
(* zero divisor instead of failing.                                        *)
(***************************************************************************)
mod_quotientRounded(x, y) ==
  LET ygtx == cmp([y EXCEPT !.s = 1], [x EXCEPT !.s = 1]) = 1
      q == div(x, y, DP, RM)
  IN IF y.c[1] = 0 THEN Throw(DIV_BY_ZERO)
     ELSE IF ygtx THEN Ok(x)
     ELSE Ok(minus(x, times(q.val, y)))
mod_zeroDivisorAccepted(x, y) ==
  LET ygtx == cmp([y EXCEPT !.s = 1], [x EXCEPT !.s = 1]) = 1
      q == div(x, y, 0, 0)
  IN IF y.c[1] = 0 \/ ygtx THEN Ok(x)
     ELSE Ok(minus(x, times(q.val, y)))
mod(x, y) ==
  LET ygtx == cmp([y EXCEPT !.s = 1], [x EXCEPT !.s = 1]) = 1
      q == div(x, y, 0, 0)
  IN IF y.c[1] = 0 THEN Throw(DIV_BY_ZERO)
     ELSE IF ygtx THEN Ok(x)
     ELSE Ok(minus(x, times(q.val, y)))

(***************************************************************************)
(* The state of the program.                                               *)
(*   Big       the settings Big.DP and Big.RM of the Big constructor       *)
(*   state     CalcApp's state object: total, next, operation              *)
(*   display   the text shown by calc-display                              *)
(*   pressed   the name of the button of the last press, Null before it    *)
(*   returned  what calculate gave for the last press: an update or a      *)
(*             failure                                                     *)
(*   intact    whether calculate left the object it was passed as it was   *)
(*   presses   the number of presses since the state was last cleared      *)
(*   keys      the buttons pressed since the state was last cleared, while *)
(*             they spell operands separated by operators; Off otherwise   *)
(*   lhs, rhs  the operands of the Decimal operations                      *)
(*   called    the name of the last Decimal operation, Null before it      *)
(*   result    what that operation gave                                    *)
(***************************************************************************)
VARIABLES Big, state, display, pressed, returned, intact, presses, keys,
          lhs, rhs, called, result

vars == <<Big, state, display, pressed, returned, intact, presses, keys,
          lhs, rhs, called, result>>
appVars == <<state, display, pressed, returned, intact, presses, keys>>
decimalVars == <<lhs, rhs, called, result>>

\* the settings Big.DP and Big.RM after x.mod(y): they are saved, zeroed for
\* the integer quotient and put back
modSettings_notRestored(x, y) ==
  LET ygtx == cmp([y EXCEPT !.s = 1], [x EXCEPT !.s = 1]) = 1
      zeroed == [Big EXCEPT !.DP = 0, !.RM = 0]
  IN IF y.c[1] = 0 \/ ygtx THEN Big ELSE zeroed
modSettings(x, y) ==
  LET ygtx == cmp([y EXCEPT !.s = 1], [x EXCEPT !.s = 1]) = 1
      saved == Big
      zeroed == [Big EXCEPT !.DP = 0, !.RM = 0]
      restored == [zeroed EXCEPT !.DP = saved.DP, !.RM = saved.RM]
  IN IF y.c[1] = 0 \/ ygtx THEN Big ELSE restored

(***************************************************************************)
(* operate(numberOne, numberTwo, operation)                                *)
(***************************************************************************)
Stringified(r) == IF r.err # NoError THEN r ELSE Ok(stringify(r.val))
Operated(one, two, operation, dp, rm) ==
  IF one.err # NoError THEN one
  ELSE IF two.err # NoError THEN two
  ELSE IF operation = <<"+">> THEN Ok(plus(one.val, two.val))
  ELSE IF operation = <<"-">> THEN Ok(minus(one.val, two.val))
  ELSE IF operation = <<"x">> THEN Ok(times(one.val, two.val))
  ELSE IF operation = <<"DIVIDE_SIGN">> THEN div(one.val, two.val, dp, rm)
  ELSE IF operation = <<"%">> THEN mod(one.val, two.val)
  ELSE Throw(UNKNOWN_OPERATION)
operate_identityFallback(numberOne, numberTwo, operation) ==
  Stringified(IF operation \in {<<"+">>, <<"-">>, <<"x">>, <<"DIVIDE_SIGN">>, <<"%">>}
              THEN Operated(parse(numberOne), parse(numberTwo), operation, Big.DP, Big.RM)
              ELSE Operated(parse(numberOne), parse(numberTwo), <<"+">>, Big.DP, Big.RM))
operate_minusForPlus(numberOne, numberTwo, operation) ==
  Stringified(Operated(parse(numberOne), parse(numberTwo),
                       IF operation = <<"+">> THEN <<"-">> ELSE operation, Big.DP, Big.RM))
operate(numberOne, numberTwo, operation) ==
  Stringified(Operated(parse(numberOne), parse(numberTwo), operation, Big.DP, Big.RM))

\* Big.DP and Big.RM after the call
operateSettings(numberOne, numberTwo, operation) ==
  LET Settings(one, two) ==
        IF one.err = NoError /\ two.err = NoError /\ operation = <<"%">>
        THEN modSettings(one.val, two.val)
        ELSE Big
  IN Settings(parse(numberOne), parse(numberTwo))

(***************************************************************************)
(* (-1 * parseFloat(str)).toString(): the ECMAScript built-ins that the     *)
(* +/- button uses.  A Number is the IEEE 754 double nearest to the parsed *)
(* decimal (ties to even) and prints as the shortest decimal that converts *)
(* back to the same double.  Doubles are written as Bigs holding their     *)
(* exact decimal expansion.  Infinity, NaN operands and subnormal doubles  *)
(* are outside the strings the calculator can hold and are not modelled,   *)
(* except that a string without a numeric prefix gives "NaN".              *)
(***************************************************************************)
\* the longest prefix of str that parseFloat reads as a decimal literal, <<>> if none
ParseFloatPrefix(str) ==
  LET p0 == IF CharAt(str, 0) \in {"+", "-"} THEN 1 ELSE 0
      p1 == SkipDigits(str, p0)
      p2 == IF CharAt(str, p1) = "." THEN SkipDigits(str, p1 + 1) ELSE p1
      \* at least one digit before or after the point
      pm == IF p1 > p0 THEN p2 ELSE IF p2 > p1 + 1 THEN p2 ELSE -1
      ps == IF CharAt(str, pm + 1) \in {"+", "-"} THEN pm + 2 ELSE pm + 1
      pe == IF CharAt(str, pm) \in {"e", "E"} /\ SkipDigits(str, ps) > ps
            THEN SkipDigits(str, ps) ELSE pm
      body == SubSeq(str, p0 + 1, pe)
  IN IF pm < 0 THEN <<>>
     ELSE IF CharAt(str, 0) = "-" THEN <<"-">> \o body ELSE body

BigOne == NewBig(1, 0, <<1>>)
BigTwo == NewBig(1, 0, <<2>>)
BigHalf == NewBig(1, -1, <<5>>)

\* b^n by repeated squaring, n >= 0
RECURSIVE IntPow(_, _)
Squared(b, n, half) ==
  IF n % 2 = 0 THEN times(half, half) ELSE times(b, times(half, half))
IntPow(b, n) == IF n = 0 THEN BigOne ELSE Squared(b, n, IntPow(b, n \div 2))

\* 2^n as a Big, n of either sign
Pow2(n) == IF n >= 0 THEN IntPow(BigTwo, n) ELSE IntPow(BigHalf, 0 - n)

\* the k with 2^k <= v < 2^(k+1), searched from the guess k; v > 0
RECURSIVE BinaryExponent(_, _)
Between(v, k, low) ==
  IF cmp(v, low) < 0 THEN BinaryExponent(v, k - 1)
  ELSE IF cmp(v, times(low, BigTwo)) >= 0 THEN BinaryExponent(v, k + 1)
  ELSE k
BinaryExponent(v, k) == Between(v, k, Pow2(k))

\* the double nearest to v > 0 (ties to even): its binary exponent k, its
\* 53-bit significand m, its value d, and the scale and bounds of its binade
Rounded(k, up, low, m) ==
  [k |-> k, m |-> m, d |-> times(m, Pow2(k - 52)), up |-> up,
   low |-> low, high |-> times(low, BigTwo)]
Scaled(v, k, up, low) == Rounded(k, up, low, round(times(v, up), 0, 2, FALSE).val)
Binade(v, k) == Scaled(v, k, Pow2(52 - k), Pow2(k))
ToDouble(v, guess) == Binade(v, BinaryExponent(v, guess))

\* does the decimal c convert to the double dbl?
Converts(dbl, c) ==
  IF cmp(c, dbl.low) >= 0 /\ cmp(c, dbl.high) < 0
  THEN round(times(c, dbl.up), 0, 2, FALSE).val = dbl.m
  ELSE ToDouble(c, dbl.k).d = dbl.d

\* the decimals with n significant digits on either side of d, nearest first
Nearest(d, lo, hi) ==
  IF cmp(minus(d, lo), minus(hi, d)) <= 0 THEN <<lo, hi>> ELSE <<hi, lo>>
ShortestCandidates(d, n) ==
  Nearest(d, round(d, n - 1 - d.e, 0, FALSE).val, round(d, n - 1 - d.e, 3, FALSE).val)

\* the decimal with the fewest significant digits, between lo and hi of
\* them, that converts to dbl; hi digits are known to be enough
RECURSIVE ShortestDecimal(_, _, _)
Tried(dbl, lo, mid, hi, cs, first) ==
  IF lo < hi
  THEN (IF first \/ Converts(dbl, cs[2]) THEN ShortestDecimal(dbl, lo, mid)
        ELSE ShortestDecimal(dbl, mid + 1, hi))
  ELSE IF first THEN cs[1] ELSE cs[2]
Candidates(dbl, lo, mid, hi, cs) == Tried(dbl, lo, mid, hi, cs, Converts(dbl, cs[1]))
ShortestDecimal(dbl, lo, hi) ==
  Candidates(dbl, lo, (lo + hi) \div 2, hi, ShortestCandidates(dbl.d, (lo + hi) \div 2))

\* the Number of a decimal, printed back as a decimal: a decimal of at most
\* 15 significant digits survives unchanged, 17 always identify a double
NumberValue(v) ==
  IF v.c[1] = 0 \/ Len(v.c) <= 15 THEN v
  ELSE [ShortestDecimal(ToDouble([v EXCEPT !.s = 1], (v.e * 3322) \div 1000), 1, 17)
          EXCEPT !.s = v.s]

Negated(prefix) ==
  IF prefix = <<>> THEN <<"N", "a", "N">>
  ELSE stringify([NumberValue(parse(prefix).val) EXCEPT !.s = 0 - @])
NegateString(str) == Negated(ParseFloatPrefix(str))

(***************************************************************************)
(* P.pow(n): the loop multiplies by repeated squaring; a negative n        *)
(* divides one by the power, to dp places in rounding mode rm.             *)
(***************************************************************************)
MAX_POWER == 1000000
INVALID_EXPONENT == "[big.js] Invalid exponent"
NO_SQRT == "[big.js] No square root"
\* a call whose loop does not end
NoReturn == [err |-> "no return"]

\* for (;;) { if (n & 1) y = y.times(x); n >>= 1; if (!n) break; x = x.times(x); }
RECURSIVE PowLoop(_, _, _)
PowStep(x, y, n) == IF n = 0 THEN y ELSE PowLoop(times(x, x), y, n)
PowLoop(x, y, n) == PowStep(x, IF n % 2 = 1 THEN times(y, x) ELSE y, n \div 2)

pow(x, n, dp, rm) ==
  IF n < 0 - MAX_POWER \/ n > MAX_POWER THEN Throw(INVALID_EXPONENT)
  ELSE IF n < 0 THEN div(BigOne, PowLoop(x, BigOne, 0 - n), dp, rm)
  ELSE Ok(PowLoop(x, BigOne, n))

(***************************************************************************)
(* P.round(dp, rm): UNDEF stands for an argument that is not given.        *)
(***************************************************************************)
P_round(x, dp, rm, bigRM) ==
  IF dp # UNDEF /\ (dp < 0 \/ dp > MAX_DP) THEN Throw(INVALID_DP)
  ELSE round(x, IF dp = UNDEF THEN 0 ELSE dp, IF rm = UNDEF THEN bigRM ELSE rm, FALSE)

(***************************************************************************)
(* Math.sqrt of a double: the double nearest to the square root.  With the *)
(* double m * 2^(k-52) and j the floor of k/2, the root is f * 2^(j-52)    *)
(* for f the root of n = m * 2^(52+k-2j), a number of 53 bits.             *)
(***************************************************************************)
\* the largest integer whose square is at most n, by Newton's iteration on
\* integers from an f that is not below it: f decreases until it is reached
RECURSIVE SqrtFloor(_, _)
SqrtImproved(n, f, g) == IF cmp(g, f) >= 0 THEN f ELSE SqrtFloor(n, g)
SqrtFloor(n, f) ==
  SqrtImproved(n, f, round(times(BigHalf, plus(f, div(n, f, 0, 0).val)), 0, 0, FALSE).val)

\* the integer nearest to the root of n, given the floor f of the root
SqrtNearest(n, f) == IF cmp(n, plus(times(f, f), f)) > 0 THEN plus(f, BigOne) ELSE f
SqrtSignificand(n) == SqrtNearest(n, SqrtFloor(n, Pow2(53)))
SqrtBinade(dbl, j) ==
  Rounded(j, Pow2(52 - j), Pow2(j), SqrtSignificand(times(dbl.m, Pow2(52 + dbl.k - 2 * j))))
MathSqrt(dbl) == SqrtBinade(dbl, dbl.k \div 2)

\* Math.sqrt(str).toString() read as a decimal, for the string of a number
\* that converts to a normal double
SqrtOfValue(v) == ShortestDecimal(MathSqrt(ToDouble(v, (v.e * 3322) \div 1000)), 1, 17)
SqrtOfString(str) == SqrtOfValue(parse(str).val)

(***************************************************************************)
(* P.sqrt: an estimate from Math.sqrt, refined by Newton-Raphson iteration *)
(* with Big.DP raised by 4 for the divisions, and rounded to Big.DP.       *)
(***************************************************************************)
\* s === 0 || s === 1 / 0: the string of x converts to 0 or to Infinity
SqrtOutOfRange(x) ==
  \/ x.e >= 308 /\ cmp(x, minus(Pow2(1024), Pow2(970))) >= 0
  \/ x.e <= -324 /\ cmp(x, Pow2(-1075)) <= 0

\* (e + 1) / 2 | 0
HalfTruncated(n) == IF n >= 0 THEN n \div 2 ELSE 0 - ((0 - n) \div 2)

\* the estimate of the root from the digits of x read as an integer
Reestimated(x, c) ==
  [SqrtOfString(c) EXCEPT
     !.e = HalfTruncated(x.e + 1) - (IF x.e < 0 \/ x.e % 2 = 1 THEN 1 ELSE 0)]
Reestimate(x) ==
  Reestimated(x, Join(x.c) \o (IF (Len(x.c) + x.e) % 2 = 0 THEN <<"0">> ELSE <<>>))

SqrtEstimate(x) ==
  IF SqrtOutOfRange(x) THEN Reestimate(x) ELSE SqrtOfString(stringify(x))

\* arr.slice(0, e)
SliceZero(arr, e) ==
  SliceTo(arr, IF e >= 0 THEN e ELSE IF Len(arr) + e > 0 THEN Len(arr) + e ELSE 0)

\* do { t = r; r = half.times(t.plus(x.div(t))); } while (the first e digits differ)
\* n counts the iterations; a loop still running after MaxIterations of them
\* is taken not to return
RECURSIVE Newton(_, _, _, _, _, _)
Iterated(x, t, r, e, dp, rm, n) ==
  IF SliceZero(t.c, e) = SliceZero(r.c, e) THEN Ok(r)
  ELSE IF n >= MaxIterations THEN NoReturn
  ELSE Newton(x, r, e, dp, rm, n + 1)
Divided(x, t, e, dp, rm, n, q) ==
  IF q.err # NoError THEN q
  ELSE Iterated(x, t, times(BigHalf, plus(t, q.val)), e, dp, rm, n)
Newton(x, t, e, dp, rm, n) == Divided(x, t, e, dp, rm, n, div(x, t, dp, rm))

\* the outcome of the call and the Big.DP it leaves, from the settings dp, rm
SqrtRounded(r, dp, rm) ==
  IF r.err # NoError THEN [outcome |-> r, DP |-> dp + 4]
  ELSE [outcome |-> round(r.val, dp, rm, FALSE), DP |-> dp]
SqrtRefined(x, r, dp, rm) ==
  IF Done(r) THEN SqrtRounded(Newton(x, r, r.e + dp + 4, dp + 4, rm, 1), dp, rm)
  ELSE [outcome |-> NoReturn, DP |-> dp]
sqrtRun(x, dp, rm) ==
  IF x.c[1] = 0 THEN [outcome |-> Ok(x), DP |-> dp]
  ELSE IF x.s < 0 THEN [outcome |-> Throw(NO_SQRT), DP |-> dp]
  ELSE SqrtRefined(x, SqrtEstimate(x), dp, rm)

(***************************************************************************)
(* isNumber(item): item.match(/[0-9]+/)                                    *)
(***************************************************************************)
isNumber(item) == \E i \in 1..Len(item) : IsDigitChar(item[i])

(***************************************************************************)
(* calculate(obj, buttonName).  The returned object is a function from the *)
(* keys it holds to their values; NoChange is the object {}.               *)
(***************************************************************************)
\* a JavaScript string or null used as a condition
Truthy(v) == v # Null /\ v # <<>>

NoChange == [key \in {} |-> Null]

calculateAC_operationKept ==
  [total |-> Null, next |-> Null]
calculateAC ==
  [total |-> Null, next |-> Null, operation |-> Null]

\* the variants before calculateNumber append a 0 to the next "0", and clear total
\* whether or not an operator is pending
calculateNumber_zeroAppended(obj, buttonName) ==
  IF Truthy(obj.operation)
  THEN (IF Truthy(obj.next) THEN [next |-> obj.next \o buttonName]
        ELSE [next |-> buttonName])
  ELSE IF Truthy(obj.next) THEN [next |-> obj.next \o buttonName, total |-> Null]
  ELSE [next |-> buttonName, total |-> Null]
calculateNumber_totalCleared(obj, buttonName) ==
  IF buttonName = <<"0">> /\ obj.next = <<"0">> THEN NoChange
  ELSE IF Truthy(obj.next) THEN [next |-> obj.next \o buttonName, total |-> Null]
  ELSE [next |-> buttonName, total |-> Null]
calculateNumber_literalContinued(obj, buttonName) ==
  IF buttonName = <<"0">> /\ obj.next = <<"0">> THEN NoChange
  ELSE IF Truthy(obj.operation)
       THEN (IF Truthy(obj.next) THEN [next |-> obj.next \o buttonName]
             ELSE [next |-> buttonName])
  ELSE IF Truthy(obj.next) THEN [next |-> obj.next \o buttonName, total |-> Null]
  ELSE IF Truthy(obj.total) /\ obj.total[Len(obj.total)] = "."
       THEN [next |-> obj.total \o buttonName, total |-> Null]
  ELSE [next |-> buttonName, total |-> Null]
calculateNumber(obj, buttonName) ==
  IF buttonName = <<"0">> /\ obj.next = <<"0">> THEN NoChange
  ELSE IF Truthy(obj.operation)
       THEN (IF Truthy(obj.next) THEN [next |-> obj.next \o buttonName]
             ELSE [next |-> buttonName])
  ELSE IF Truthy(obj.next) THEN [next |-> obj.next \o buttonName, total |-> Null]
  ELSE [next |-> buttonName, total |-> Null]

calculatePoint_totalBeforeOperation(obj) ==
  IF Truthy(obj.next)
  THEN (IF Includes(obj.next, ".") THEN NoChange ELSE [next |-> obj.next \o <<".">>])
  ELSE IF Truthy(obj.total)
       THEN (IF Includes(obj.total, ".") THEN NoChange ELSE [total |-> obj.total \o <<".">>])
  ELSE IF Truthy(obj.operation) THEN [next |-> <<"0", ".">>]
  ELSE [total |-> <<"0", ".">>]
calculatePoint_always(obj) ==
  IF Truthy(obj.next) THEN [next |-> obj.next \o <<".">>]
  ELSE IF Truthy(obj.operation) THEN [next |-> <<"0", ".">>]
  ELSE IF Truthy(obj.total)
       THEN (IF Includes(obj.total, ".") THEN NoChange ELSE [total |-> obj.total \o <<".">>])
  ELSE [total |-> <<"0", ".">>]
calculatePoint(obj) ==
  IF Truthy(obj.next)
  THEN (IF Includes(obj.next, ".") THEN NoChange ELSE [next |-> obj.next \o <<".">>])
  ELSE IF Truthy(obj.operation) THEN [next |-> <<"0", ".">>]
  ELSE IF Truthy(obj.total)
       THEN (IF Includes(obj.total, ".") THEN NoChange ELSE [total |-> obj.total \o <<".">>])
  ELSE [total |-> <<"0", ".">>]

calculateEquals_idleClears(obj) ==
  LET Updated(r) ==
        IF r.err # NoError THEN r
        ELSE Ok([total |-> r.val, next |-> Null, operation |-> Null])
  IN IF Truthy(obj.next) /\ Truthy(obj.operation)
     THEN Updated(operate(obj.total, obj.next, obj.operation))
     ELSE Ok([next |-> Null, operation |-> Null])
calculateEquals_operandsSwapped(obj) ==
  LET Updated(r) ==
        IF r.err # NoError THEN r
        ELSE Ok([total |-> r.val, next |-> Null, operation |-> Null])
  IN IF Truthy(obj.next) /\ Truthy(obj.operation)
     THEN Updated(operate(obj.next, obj.total, obj.operation))
     ELSE Ok(NoChange)
calculateEquals(obj) ==
  LET Updated(r) ==
        IF r.err # NoError THEN r
        ELSE Ok([total |-> r.val, next |-> Null, operation |-> Null])
  IN IF Truthy(obj.next) /\ Truthy(obj.operation)
     THEN Updated(operate(obj.total, obj.next, obj.operation))
     ELSE Ok(NoChange)

calculateSign(obj) ==
  IF Truthy(obj.next) THEN [next |-> NegateString(obj.next)]
  ELSE IF Truthy(obj.total) THEN [total |-> NegateString(obj.total)]
  ELSE NoChange

calculateOperation_operandNeeded(obj, buttonName) ==
  LET Updated(r) ==
        IF r.err # NoError THEN r
        ELSE Ok([total |-> r.val, next |-> Null, operation |-> buttonName])
  IN IF ~Truthy(obj.next) /\ ~Truthy(obj.total) THEN Ok(NoChange)
     ELSE IF Truthy(obj.operation)
     THEN Updated(operate(obj.total, obj.next, obj.operation))
     ELSE IF ~Truthy(obj.next) THEN Ok([operation |-> buttonName])
     ELSE Ok([total |-> obj.next, next |-> Null, operation |-> buttonName])
calculateOperation_nextKept(obj, buttonName) ==
  LET Updated(r) ==
        IF r.err # NoError THEN r
        ELSE Ok([total |-> r.val, operation |-> buttonName])
  IN IF Truthy(obj.operation)
     THEN Updated(operate(obj.total, obj.next, obj.operation))
     ELSE IF ~Truthy(obj.next) THEN Ok([operation |-> buttonName])
     ELSE Ok([total |-> obj.next, next |-> Null, operation |-> buttonName])
calculateOperation(obj, buttonName) ==
  LET Updated(r) ==
        IF r.err # NoError THEN r
        ELSE Ok([total |-> r.val, next |-> Null, operation |-> buttonName])
  IN IF Truthy(obj.operation)
     THEN Updated(operate(obj.total, obj.next, obj.operation))
     ELSE IF ~Truthy(obj.next) THEN Ok([operation |-> buttonName])
     ELSE Ok([total |-> obj.next, next |-> Null, operation |-> buttonName])

calculate(obj, buttonName) ==
  IF buttonName = <<"A", "C">> THEN Ok(calculateAC)
  ELSE IF isNumber(buttonName) THEN Ok(calculateNumber(obj, buttonName))
  ELSE IF buttonName = <<".">> THEN Ok(calculatePoint(obj))
  ELSE IF buttonName = <<"=">> THEN calculateEquals(obj)
  ELSE IF buttonName = <<"+", "/", "-">> THEN Ok(calculateSign(obj))
  ELSE calculateOperation(obj, buttonName)


\* Big.DP and Big.RM after the call: only operate touches them
calculateSettings(obj, buttonName) ==
  IF buttonName = <<"A", "C">> \/ isNumber(buttonName) \/ buttonName = <<".">>
     \/ buttonName = <<"+", "/", "-">>
  THEN Big
  ELSE IF (buttonName = <<"=">> /\ Truthy(obj.next) /\ Truthy(obj.operation))
          \/ (buttonName # <<"=">> /\ Truthy(obj.operation))
       THEN operateSettings(obj.total, obj.next, obj.operation)
  ELSE Big

\* the object passed to calculate as the call leaves it: no branch assigns to it
calculateArgument(obj, buttonName) == obj

(***************************************************************************)
(* The calculator: CalcApp and the buttons of CalcButtonPanel.             *)
(***************************************************************************)
AC == <<"A", "C">>
DigitButtons == {<<"0">>, <<"2">>, <<"3">>}
OperatorButtons == {<<"%">>, <<"DIVIDE_SIGN">>, <<"x">>, <<"-">>, <<"+">>}
Buttons == {AC, <<"+", "/", "-">>, <<".">>, <<"=">>} \cup OperatorButtons \cup DigitButtons

\* the state object of the constructor
ClearedState == [total |-> Null, next |-> Null, operation |-> Null]
DefaultSettings == [DP |-> DP, RM |-> RM]

\* for (c in calc) this.state[c] = calc[c]
Merge(obj, calc) == [c \in DOMAIN obj \cup DOMAIN calc |-> IF c \in DOMAIN calc THEN calc[c] ELSE obj[c]]

\* this.state.next || this.state.total || '0'
DisplayValue_totalFirst(obj) ==
  IF Truthy(obj.total) THEN obj.total ELSE IF Truthy(obj.next) THEN obj.next ELSE <<"0">>
DisplayValue(obj) ==
  IF Truthy(obj.next) THEN obj.next ELSE IF Truthy(obj.total) THEN obj.total ELSE <<"0">>

\* the record of the presses: operands of digits separated by operators and
\* closed by '='; any other press ends the record
\* what a variable of results holds before any call
NoCall == [err |-> "no call"]

Off == <<<<"o", "f", "f">>>>
NextKeys(h, name) ==
  LET last == IF h = <<>> THEN Null ELSE h[Len(h)]
  IN IF h = Off THEN Off
     ELSE IF name \in DigitButtons
          THEN (IF last = <<"=">> THEN Off ELSE Append(h, name))
     ELSE IF name \in OperatorButtons
          THEN (IF last \in DigitButtons THEN Append(h, name) ELSE Off)
     ELSE IF name = <<"=">>
          THEN (IF last \in DigitButtons /\ \E i \in 1..Len(h) : h[i] \in OperatorButtons
                THEN Append(h, name) ELSE Off)
     ELSE Off

AppInit ==
  /\ Big = DefaultSettings
  /\ state = ClearedState
  /\ display = <<"0">>
  /\ pressed = Null
  /\ returned = NoCall
  /\ intact = TRUE
  /\ presses = 0
  /\ keys = <<>>

\* CalcApp.onButtonPress for the event of the button called name.  A failure
\* of calculate leaves the handler before the merge and the display update.
\* the variant before it clears the state when calculate fails
onButtonPress_failureClears(name) ==
  LET Shown(merged, failed) ==
        /\ state' = merged
        /\ display' = IF failed THEN display ELSE DisplayValue(merged)
        /\ presses' = IF merged = ClearedState THEN 0 ELSE presses + 1
        /\ keys' = IF merged = ClearedState THEN <<>> ELSE NextKeys(keys, name)
      Returned(calc, obj) ==
        /\ returned' = calc
        /\ intact' = (obj = state)
        /\ Shown(IF calc.err = NoError THEN Merge(obj, calc.val) ELSE ClearedState,
                 calc.err # NoError)
  IN /\ \/ presses < MaxPresses
        \/ presses < MaxChain /\ NextKeys(keys, name) # Off
        \/ name = AC
     /\ Big' = calculateSettings(state, name)
     /\ pressed' = name
     /\ Returned(calculate(state, name), calculateArgument(state, name))
     /\ UNCHANGED decimalVars
onButtonPress(name) ==
  LET Shown(merged, failed) ==
        /\ state' = merged
        /\ display' = IF failed THEN display ELSE DisplayValue(merged)
        /\ presses' = IF merged = ClearedState THEN 0 ELSE presses + 1
        /\ keys' = IF merged = ClearedState THEN <<>> ELSE NextKeys(keys, name)
      Returned(calc, obj) ==
        /\ returned' = calc
        /\ intact' = (obj = state)
        /\ Shown(IF calc.err = NoError THEN Merge(obj, calc.val) ELSE obj,
                 calc.err # NoError)
  IN /\ \/ presses < MaxPresses
        \/ presses < MaxChain /\ NextKeys(keys, name) # Off
        \/ name = AC
     /\ Big' = calculateSettings(state, name)
     /\ pressed' = name
     /\ Returned(calculate(state, name), calculateArgument(state, name))
     /\ UNCHANGED decimalVars

Init ==
  /\ AppInit
  /\ lhs = Null /\ rhs = Null /\ called = Null /\ result = NoCall

Next == \E name \in Buttons : onButtonPress(name)

Spec == Init /\ [][Next]_vars

(***************************************************************************)
(* calculate and its caller for button names beyond those of the panel:    *)
(* calculate takes any string, and stores as the operation every name that *)
(* is not AC, a digit, '.', '=' or '+/-'.                                  *)
(***************************************************************************)
EngineNames ==
  {AC, <<"0">>, <<"2">>, <<"=">>, <<"+">>, <<"DIVIDE_SIGN">>, <<"MULTIPLY_SIGN">>, <<"*">>}

EngineNext == \E name \in EngineNames : onButtonPress(name)

EngineSpec == Init /\ [][EngineNext]_vars

(***************************************************************************)
(* The app after one of a few longer runs of presses from its first state, *)
(* pressed on from there.  The count and the record of the presses start   *)
(* after the run.                                                          *)
(***************************************************************************)
\* the state after the presses names on the state obj
RECURSIVE Replay(_, _)
Replayed(obj, calc, names) ==
  Replay(IF calc.err = NoError THEN Merge(obj, calc.val) ELSE obj, names)
Replay(obj, names) ==
  IF names = <<>> THEN obj
  ELSE Replayed(obj, calculate(obj, Head(names)), Tail(names))

ReplayRuns ==
  {<<>>,
   <<<<"2">>, <<"+">>, <<"2">>, <<"=">>>>,
   <<<<"2">>, <<"DIVIDE_SIGN">>, <<"2">>, <<"0">>, <<"0">>, <<"0">>, <<"0">>, <<"0">>,
     <<"0">>, <<"0">>, <<"=">>>>}
ReplayNames == {AC, <<"2">>, <<".">>, <<"+">>, <<"=">>, <<"+", "/", "-">>}

ReplayInit ==
  /\ Big = DefaultSettings
  /\ state \in {Replay(ClearedState, names) : names \in ReplayRuns}
  /\ display = DisplayValue(state)
  /\ pressed = Null
  /\ returned = NoCall
  /\ intact = TRUE
  /\ presses = 0
  /\ keys = IF state = ClearedState THEN <<>> ELSE Off
  /\ lhs = Null /\ rhs = Null /\ called = Null /\ result = NoCall

ReplayNext == \E name \in ReplayNames : onButtonPress(name)

ReplaySpec == ReplayInit /\ [][ReplayNext]_vars

(***************************************************************************)
(* The Decimal type on its own: two operands built from strings, the       *)
(* settings Big.DP and Big.RM as a program may have set them, and one      *)
(* action for each operation.                                              *)
(***************************************************************************)
OperandDigits == {"0", "7"}
Mantissas == UNION {[1..n -> OperandDigits] : n \in 1..MaxDigits}
OperandStrings ==
  {sign \o body : sign \in {<<>>, <<"-">>},
                  body \in  Mantissas
                      \cup {<<".">> \o m : m \in Mantissas}
                      \cup {m \o <<"e", "+", "2", "1">> : m \in Mantissas}
                      \cup {m \o <<"e", "-", "8">> : m \in Mantissas}}
Operands == {parse(str).val : str \in OperandStrings}
SettingsChoices ==
  {DefaultSettings, [DP |-> 2, RM |-> 0], [DP |-> 1, RM |-> 2], [DP |-> 0, RM |-> 3]}
OperateNames ==
  {<<"+">>, <<"-">>, <<"x">>, <<"MULTIPLY_SIGN">>, <<"DIVIDE_SIGN">>, <<"%">>, <<"*">>}

DecimalInit ==
  /\ Big \in SettingsChoices
  /\ lhs \in Operands
  /\ rhs \in Operands
  /\ called = Null
  /\ result = NoCall
  /\ state = ClearedState /\ display = <<"0">> /\ pressed = Null
  /\ returned = NoCall /\ intact = TRUE /\ presses = 0 /\ keys = <<>>

\* an operation on the operands that leaves the settings alone
Apply(name, outcome) ==
  /\ called = Null
  /\ called' = name
  /\ result' = outcome
  /\ UNCHANGED <<Big, lhs, rhs>>
  /\ UNCHANGED appVars

Plus == Apply(<<"plus">>, Ok(plus(lhs, rhs)))
Minus == Apply(<<"minus">>, Ok(minus(lhs, rhs)))
Times == Apply(<<"times">>, Ok(times(lhs, rhs)))
Div == Apply(<<"div">>, div(lhs, rhs, Big.DP, Big.RM))
Cmp == Apply(<<"cmp">>, Ok(cmp(lhs, rhs)))

Mod ==
  /\ called = Null
  /\ called' = <<"mod">>
  /\ result' = mod(lhs, rhs)
  /\ Big' = modSettings(lhs, rhs)
  /\ UNCHANGED <<lhs, rhs>>
  /\ UNCHANGED appVars

\* lhs.div(rhs).times(rhs)
DivTimes ==
  LET q == div(lhs, rhs, Big.DP, Big.RM)
  IN Apply(<<"div", "times">>, IF q.err # NoError THEN q ELSE Ok(times(q.val, rhs)))

\* operate on the strings of the operands
Operate(operation) ==
  /\ called = Null
  /\ called' = <<"operate">> \o operation
  /\ result' = operate(stringify(lhs), stringify(rhs), operation)
  /\ Big' = operateSettings(stringify(lhs), stringify(rhs), operation)
  /\ UNCHANGED <<lhs, rhs>>
  /\ UNCHANGED appVars

\* Big(d.toString()) for an operand d or for the Big an operation gave
Results == {<<"plus">>, <<"minus">>, <<"times">>, <<"div">>, <<"mod">>, <<"div", "times">>}
ToStringParse ==
  /\ \/ called = Null
     \/ called \in Results /\ result.err = NoError
  /\ LET d == IF called = Null THEN lhs ELSE result.val
     IN /\ lhs' = d
        /\ result' = parse(stringify(d))
  /\ called' = <<"toString">>
  /\ UNCHANGED <<Big, rhs>>
  /\ UNCHANGED appVars

DecimalNext ==
  \/ Plus \/ Minus \/ Times \/ Div \/ Mod \/ Cmp
  \/ DivTimes
  \/ \E operation \in OperateNames : Operate(operation)
  \/ ToStringParse

DecimalSpec == DecimalInit /\ [][DecimalNext]_vars

(***************************************************************************)
(* The Big constructor on its own: Big(lhs) for every string lhs of at     *)
(* most MaxChars characters over the characters NUMERIC tells apart.       *)
(***************************************************************************)
InputChars == {"-", "+", ".", "e", "E", "0", "7", "x"}
InputStrings == UNION {[1..n -> InputChars] : n \in 0..MaxChars}

ConstructInit ==
  /\ AppInit
  /\ lhs \in InputStrings
  /\ rhs = Null /\ called = Null /\ result = NoCall

Construct ==
  /\ called = Null
  /\ called' = <<"Big">>
  /\ result' = parse(lhs)
  /\ UNCHANGED <<Big, lhs, rhs>>
  /\ UNCHANGED appVars

ConstructNext == Construct

ConstructSpec == ConstructInit /\ [][ConstructNext]_vars

(***************************************************************************)
(* The methods of a Big that read the settings, called on an operand under *)
(* settings that include the largest number of decimal places.             *)
(***************************************************************************)
MethodSettings == SettingsChoices \cup {[DP |-> MAX_DP, RM |-> RM]}
MethodArguments ==
  {parse(str).val : str \in {<<"7">>, <<"-", ".", "7">>, <<"0">>, <<".", "7", "7">>}}
PowExponents == {-2, 0, 3, MAX_POWER + 1}
RoundPlaces == {UNDEF, 0, 1, MAX_DP + 1}
RoundModes == {UNDEF, 0, 2, 4}

MethodInit ==
  /\ Big \in MethodSettings
  /\ lhs \in Operands
  /\ rhs \in MethodArguments
  /\ called = Null
  /\ result = NoCall
  /\ state = ClearedState /\ display = <<"0">> /\ pressed = Null
  /\ returned = NoCall /\ intact = TRUE /\ presses = 0 /\ keys = <<>>

\* lhs.pow(n); an inverse power is divided out to at most MaxPlaces places
Pow(n) ==
  /\ n >= 0 \/ Big.DP <= MaxPlaces
  /\ Apply(<<"pow">>, pow(lhs, n, Big.DP, Big.RM))

\* lhs.round(dp, rm)
Round(dp, rm) == Apply(<<"round">>, P_round(lhs, dp, rm, Big.RM))

\* lhs.sqrt(), when the call ends
SqrtEnded(run) ==
  /\ called = Null
  /\ run.outcome # NoReturn
  /\ called' = <<"sqrt">>
  /\ result' = run.outcome
  /\ Big' = [Big EXCEPT !.DP = run.DP]
  /\ UNCHANGED <<lhs, rhs>>
  /\ UNCHANGED appVars
Sqrt == SqrtEnded(sqrtRun(lhs, Big.DP, Big.RM))

\* a quotient is divided out to at most MaxPlaces places
MethodNext ==
  \/ Plus \/ Minus \/ Times \/ Mod
  \/ Big.DP <= MaxPlaces /\ Div
  \/ \E n \in PowExponents : Pow(n)
  \/ \E dp \in RoundPlaces, rm \in RoundModes : Round(dp, rm)
  \/ Sqrt

MethodSpec == MethodInit /\ [][MethodNext]_vars

(***************************************************************************)
(* Reference arithmetic on the integers typed on the digit buttons,        *)
(* independent of Big: the quotient by long division to DP places, rounded *)
(* half up.                                                                *)
(***************************************************************************)
RECURSIVE RefFraction(_, _, _)
RefFraction(r, d, n) ==
  IF n = 0 THEN <<>> ELSE <<(r * 10) \div d>> \o RefFraction((r * 10) % d, d, n - 1)
RECURSIVE RefRemainder(_, _, _)
RefRemainder(r, d, n) == IF n = 0 THEN r ELSE RefRemainder((r * 10) % d, d, n - 1)
RECURSIVE RefIncrement(_)
RefIncrement(f) ==
  IF f = <<>> THEN [c |-> <<>>, carry |-> 1]
  ELSE IF f[Len(f)] < 9 THEN [c |-> [f EXCEPT ![Len(f)] = @ + 1], carry |-> 0]
  ELSE LET r == RefIncrement(SubSeq(f, 1, Len(f) - 1))
       IN [c |-> Append(r.c, 0), carry |-> r.carry]
RefQuotient(x, y) ==
  LET f == RefFraction(x % y, y, DP)
      up == 2 * RefRemainder(x % y, y, DP) >= y
      inc == RefIncrement(f)
      frac == StripTrailingZeros(IF up THEN inc.c ELSE f)
      whole == (x \div y) + (IF up THEN inc.carry ELSE 0)
  IN NatToStr(whole) \o (IF frac = <<>> THEN <<>> ELSE <<".">> \o Join(frac))
RefInteger(x, op, y) ==
  IF op = <<"+">> THEN x + y
  ELSE IF op = <<"-">> THEN x - y
  ELSE IF op = <<"x">> THEN x * y
  ELSE x % y
RefResult(x, op, y) ==
  IF op = <<"DIVIDE_SIGN">> THEN RefQuotient(x, y) ELSE IntToStr(RefInteger(x, op, y))

\* the record of the presses taken apart
KeyOperators == {i \in 1..Len(keys) : keys[i] \in OperatorButtons}
FirstOperator == CHOOSE i \in KeyOperators : \A j \in KeyOperators : i <= j
SecondOperator == CHOOSE j \in KeyOperators : \A i \in KeyOperators : i <= j
RECURSIVE Typed(_, _)
Typed(i, j) == IF i > j THEN <<>> ELSE keys[i] \o Typed(i + 1, j)
ClosedByEquals == keys # <<>> /\ keys[Len(keys)] = <<"=">>

(***************************************************************************)
(* C1: from the cleared state, a digit string, one of + - DIVIDE_SIGN %,   *)
(* a digit string (not zero for DIVIDE_SIGN and %) and '=' leave total the *)
(* canonical string of the result, and next and operation null.            *)
(***************************************************************************)
C1_Operator == keys[FirstOperator]
C1_Left == DigitsToNat(Typed(1, FirstOperator - 1))
C1_Right == DigitsToNat(Typed(FirstOperator + 1, Len(keys) - 1))
C1_Case ==
  /\ ClosedByEquals
  /\ Cardinality(KeyOperators) = 1
  /\ C1_Operator \in {<<"+">>, <<"-">>, <<"DIVIDE_SIGN">>, <<"%">>}
  /\ C1_Operator \in {<<"DIVIDE_SIGN">>, <<"%">>} => C1_Right # 0
C1_TotalIsResult ==
  C1_Case =>
    /\ returned.err = NoError
    /\ state = [total |-> RefResult(C1_Left, C1_Operator, C1_Right),
                next |-> Null, operation |-> Null]
C1_Witness ==
  /\ C1_Case
  /\ C1_Operator = <<"DIVIDE_SIGN">>
  /\ Len(state.total) = DP + 2

(***************************************************************************)
(* C2: in a op1 b op2 c =, pressing op2 stores a op1 b in total, clears    *)
(* next and makes op2 the operation; '=' then gives (a op1 b) op2 c, with  *)
(* no precedence between the operators.                                    *)
(***************************************************************************)
C2_First == operate(Typed(1, FirstOperator - 1),
                    Typed(FirstOperator + 1, SecondOperator - 1), keys[FirstOperator])
C2_Second == operate(C2_First.val, Typed(SecondOperator + 1, Len(keys) - 1),
                     keys[SecondOperator])
C2_Integers ==
  RefResult(RefInteger(DigitsToNat(Typed(1, FirstOperator - 1)), keys[FirstOperator],
                       DigitsToNat(Typed(FirstOperator + 1, SecondOperator - 1))),
            keys[SecondOperator],
            DigitsToNat(Typed(SecondOperator + 1, Len(keys) - 1)))
C2_Chain == keys # Off /\ Cardinality(KeyOperators) = 2 /\ C2_First.err = NoError
C2_LeftToRight ==
  /\ (C2_Chain /\ Len(keys) = SecondOperator) =>
       state = [total |-> C2_First.val, next |-> Null, operation |-> keys[SecondOperator]]
  /\ (C2_Chain /\ ClosedByEquals /\ C2_Second.err = NoError) =>
       /\ state = [total |-> C2_Second.val, next |-> Null, operation |-> Null]
       /\ {keys[FirstOperator], keys[SecondOperator]} \subseteq {<<"+">>, <<"-">>, <<"x">>}
            => state.total = C2_Integers
C2_Witness ==
  /\ C2_Chain /\ ClosedByEquals
  /\ keys[FirstOperator] = <<"+">> /\ keys[SecondOperator] = <<"x">>
  /\ state.total = <<"1", "0">>

(***************************************************************************)
(* C3: after AC, whatever the state held, total, next and operation are    *)
(* null: the state is the initial one, with the settings of Big as they    *)
(* were at the start.                                                      *)
(***************************************************************************)
C3_ClearedByAC ==
  pressed = AC =>
    /\ returned.err = NoError
    /\ state = ClearedState
    /\ display = <<"0">>
    /\ Big = DefaultSettings
C3_Witness == pressed = AC /\ state = ClearedState /\ DOMAIN returned.val = DOMAIN ClearedState

(***************************************************************************)
(* C4: with DIVIDE_SIGN or % pending and a zero in next, '=' or another    *)
(* operator makes calculate fail and nothing is updated.  As first stated: *)
(* the failure is always the division by zero of Big.  As amended: it is   *)
(* the division by zero when total is a string Big accepts, and the        *)
(* invalid number of Big otherwise (an operator pressed first leaves total *)
(* null).                                                                  *)
(***************************************************************************)
C4_ZeroPending ==
  /\ state.operation \in {<<"DIVIDE_SIGN">>, <<"%">>}
  /\ Truthy(state.next)
  /\ parse(state.next).err = NoError
  /\ parse(state.next).val.c[1] = 0
C4_Evaluates == pressed' \in {<<"=">>} \cup OperatorButtons
C6_DisplayShowsState ==
  display = IF state.next # Null THEN state.next
            ELSE IF state.total # Null THEN state.total
            ELSE <<"0">>
C6_Witness ==
  pressed \in OperatorButtons /\ state.next = Null /\ state.total # Null /\ display = state.total

(***************************************************************************)
(* C7: next never holds more than one '.', and '.' pressed while next      *)
(* holds one returns the empty update and changes nothing.                 *)
(***************************************************************************)
RECURSIVE CountOf(_, _)
CountOf(str, ch) ==
  IF str = <<>> THEN 0 ELSE (IF Head(str) = ch THEN 1 ELSE 0) + CountOf(Tail(str), ch)
C7_OnePoint ==
  /\ [](state.next # Null => CountOf(state.next, ".") <= 1)
  /\ [][(pressed' = <<".">> /\ Truthy(state.next) /\ Includes(state.next, ".")) =>
          /\ returned' = Ok(NoChange)
          /\ state' = state]_vars
C7_Witness ==
  /\ pressed = <<".">>
  /\ returned.err = NoError /\ DOMAIN returned.val = {}
  /\ Truthy(state.next) /\ CountOf(state.next, ".") = 1

C5_One == parse(stringify(lhs)).val
C5_Two == parse(stringify(rhs)).val
C5_String(outcome) == IF outcome.err # NoError THEN outcome ELSE Ok(stringify(outcome.val))
C5_Operated(operation) == called = <<"operate">> \o operation
C5_Common ==
  /\ C5_Operated(<<"+">>) => result = Ok(stringify(plus(C5_One, C5_Two)))
  /\ C5_Operated(<<"-">>) => result = Ok(stringify(minus(C5_One, C5_Two)))
  /\ C5_Operated(<<"DIVIDE_SIGN">>) => result = C5_String(div(C5_One, C5_Two, Big.DP, Big.RM))
  /\ C5_Operated(<<"%">>) => result = C5_String(mod(C5_One, C5_Two))
C5_ProductByMultiplySign ==
  /\ C5_Common
  /\ C5_Operated(<<"MULTIPLY_SIGN">>) => result = Ok(stringify(times(C5_One, C5_Two)))
C5_ProductByLetterX ==
  /\ C5_Common
  /\ C5_Operated(<<"x">>) => result = Ok(stringify(times(C5_One, C5_Two)))
  /\ (C5_Operated(<<"MULTIPLY_SIGN">>) \/ C5_Operated(<<"*">>)) => result = Throw(UNKNOWN_OPERATION)
C5_Witness ==
  /\ C5_Operated(<<"x">>)
  /\ result = Ok(<<"5", "3", "9">>)

(***************************************************************************)
(* C9: a Big built from the string of a Big d compares equal to d, also    *)
(* when the string is in exponential notation.                             *)
(***************************************************************************)
C9_RoundTrip ==
  called = <<"toString">> =>
    /\ result.err = NoError
    /\ cmp(result.val, lhs) = 0
C9_Witness ==
  /\ called = <<"toString">>
  /\ Includes(stringify(lhs), "e")
  /\ Len(lhs.c) > 1
  /\ result.err = NoError /\ cmp(result.val, lhs) = 0

(***************************************************************************)
(* C10: how far a.div(b).times(b) is from a, for b not zero.  As first     *)
(* stated: at most one unit of the last decimal place, 10^-DP.  As         *)
(* amended: at most |b| such units, and at most half of that under the     *)
(* rounding modes 1 and 2, which round to the nearest.                     *)
(***************************************************************************)
C10_Abs(x) == [x EXCEPT !.s = 1]
C10_Unit == NewBig(1, 0 - Big.DP, <<1>>)
C10_Distance == C10_Abs(minus(result.val, lhs))
C10_Divided == called = <<"div", "times">> /\ result.err = NoError
C10_WithinOneUnit ==
  C10_Divided => cmp(C10_Distance, C10_Unit) <= 0
C10_WithinDivisorUnits ==
  C10_Divided =>
    /\ cmp(C10_Distance, times(C10_Abs(rhs), C10_Unit)) <= 0
    /\ Big.RM \in {1, 2} =>
         cmp(times(BigTwo, C10_Distance), times(C10_Abs(rhs), C10_Unit)) <= 0
C10_Witness ==
  /\ C10_Divided
  /\ Big = DefaultSettings
  /\ cmp(C10_Distance, C10_Unit) > 0

(***************************************************************************)
(* C11: for nonzero lhs and rhs, lhs.mod(rhs) has the sign of lhs and is   *)
(* lhs minus (lhs divided by rhs, truncated toward zero) times rhs; it is  *)
(* lhs itself when |rhs| > |lhs|.  As stated the sign fails when lhs is an *)
(* exact multiple of rhs: the remainder is then the zero of positive sign. *)
(* Amended: a remainder that is not zero has the sign of lhs and a zero    *)
(* remainder is +0.  The remainder is also characterised without the       *)
(* truncated quotient: it is smaller than |rhs| and lhs minus it is an     *)
(* integer multiple of rhs.                                                *)
(***************************************************************************)
C11_Case == called = <<"mod">> /\ lhs.c[1] # 0 /\ rhs.c[1] # 0
C11_Truncated == div(lhs, rhs, 0, 0).val
C11_Multiple == div(minus(lhs, result.val), rhs, DP, RM).val
C11_IsInteger(x) == x.c[1] = 0 \/ Len(x.c) <= x.e + 1
C11_Value ==
  /\ result.err = NoError
  /\ cmp(result.val, minus(lhs, times(C11_Truncated, rhs))) = 0
  /\ cmp(C10_Abs(rhs), C10_Abs(lhs)) = 1 => result.val = lhs
  /\ cmp(C10_Abs(result.val), C10_Abs(rhs)) = -1
  /\ C11_IsInteger(C11_Multiple)
  /\ cmp(times(C11_Multiple, rhs), minus(lhs, result.val)) = 0
C11_SignOfDividend == C11_Case => C11_Value /\ result.val.s = lhs.s
C11_SignUnlessZero ==
  C11_Case =>
    /\ C11_Value
    /\ result.val.s = IF result.val.c[1] = 0 THEN 1 ELSE lhs.s
C11_Witness ==
  /\ C11_Case
  /\ lhs.s = -1
  /\ cmp(C10_Abs(rhs), C10_Abs(lhs)) = -1
  /\ result.val.c[1] # 0
  /\ result.val.s = -1

(***************************************************************************)
(* C12: lhs.plus(rhs) compares equal to rhs.plus(lhs) and lhs.times(rhs)   *)
(* compares equal to rhs.times(lhs), for all operands.                     *)
(***************************************************************************)
C12_Commutative ==
  /\ called = <<"plus">> => cmp(result.val, plus(rhs, lhs)) = 0
  /\ called = <<"times">> => cmp(result.val, times(rhs, lhs)) = 0
C12_Witness ==
  /\ called = <<"plus">>
  /\ lhs.c[1] # 0 /\ rhs.c[1] # 0
  /\ lhs.s # rhs.s
  /\ lhs.e < rhs.e
  /\ Len(lhs.c) > Len(rhs.c)
  /\ result.val.c[1] # 0

(***************************************************************************)
(* C13: lhs.plus(0) compares equal to lhs, for lhs of either sign and for  *)
(* lhs zero; the zero added is of either sign and any spelling.            *)
(***************************************************************************)
C13_AdditiveIdentity ==
  called = <<"plus">> /\ rhs.c[1] = 0 => cmp(result.val, lhs) = 0
C13_Witness ==
  /\ called = <<"plus">>
  /\ rhs = NewBig(1, 0, <<0>>)
  /\ lhs.s = -1 /\ lhs.c[1] # 0
  /\ result.val = lhs

(***************************************************************************)
(* C14: div and mod fail with the division-by-zero error whenever rhs is   *)
(* zero, of either sign and whatever lhs is (zero included), and the       *)
(* outcome then carries no Big.                                            *)
(***************************************************************************)
C14_ZeroDivisorFails ==
  called \in {<<"div">>, <<"mod">>} /\ rhs.c[1] = 0 =>
    /\ result.err = DIV_BY_ZERO
    /\ DOMAIN result = {"err"}
C14_Witness ==
  /\ called = <<"div">>
  /\ rhs.c[1] = 0 /\ rhs.s = -1
  /\ lhs.c[1] = 0
  /\ result = Throw(DIV_BY_ZERO)

(***************************************************************************)
(* C15: Big(lhs) succeeds exactly for the strings lhs of the form          *)
(* [-]digits[.digits][e[+|-]digits] and fails with the invalid-number      *)
(* error for every other string.  As stated this fails: the constructor    *)
(* also takes a mantissa that starts with the point (.7), a mantissa that  *)
(* ends with it (7.) and an upper-case E.  Amended: it succeeds exactly    *)
(* for [-](digits[.[digits]] | .digits)[(e|E)[+|-]digits].  The forms are  *)
(* stated over the ways of cutting the string into integer part, fraction  *)
(* and exponent.                                                           *)
(***************************************************************************)
C15_Digits(s) == \A i \in 1..Len(s) : s[i] \in {"0", "1", "2", "3", "4", "5", "6", "7", "8", "9"}
C15_Unsigned(s) == IF s # <<>> /\ s[1] = "-" THEN Tail(s) ELSE s
C15_Fraction(s, digitsNeeded) ==
  \/ s = <<>>
  \/ s[1] = "." /\ C15_Digits(Tail(s)) /\ (digitsNeeded => Len(s) > 1)
C15_ExponentDigits(s) ==
  LET u == IF s # <<>> /\ s[1] \in {"+", "-"} THEN Tail(s) ELSE s
  IN u # <<>> /\ C15_Digits(u)
C15_Exponent(s, letters) ==
  \/ s = <<>>
  \/ s[1] \in letters /\ C15_ExponentDigits(Tail(s))
C15_Form(str) ==
  LET s == C15_Unsigned(str)
  IN \E i \in 0..Len(s) : \E j \in i..Len(s) :
       /\ i > 0 /\ C15_Digits(SubSeq(s, 1, i))
       /\ C15_Fraction(SubSeq(s, i + 1, j), TRUE)
       /\ C15_Exponent(SubSeq(s, j + 1, Len(s)), {"e"})
C15_Accepted(str) ==
  LET s == C15_Unsigned(str)
  IN \E i \in 0..Len(s) : \E j \in i..Len(s) :
       /\ C15_Digits(SubSeq(s, 1, i))
       /\ IF i > 0 THEN C15_Fraction(SubSeq(s, i + 1, j), FALSE)
          ELSE j > 0 /\ C15_Fraction(SubSeq(s, 1, j), TRUE)
       /\ C15_Exponent(SubSeq(s, j + 1, Len(s)), {"e", "E"})
C15_Constructed == called = <<"Big">>
C15_ExactlyTheForm ==
  C15_Constructed =>
    IF C15_Form(lhs) THEN result.err = NoError ELSE result = Throw(INVALID_NUMBER)
C15_ExactlyTheAccepted ==
  C15_Constructed =>
    IF C15_Accepted(lhs) THEN result.err = NoError ELSE result = Throw(INVALID_NUMBER)
C15_Witness ==
  /\ C15_Constructed
  /\ lhs = <<"7", ".", ".", "7">>
  /\ result = Throw(INVALID_NUMBER)

(***************************************************************************)
(* C16: an operator pressed while next is null only sets operation to the  *)
(* operator pressed, also when an operator is pending already; total and   *)
(* next stay as they were and calculate does not fail.  The code does so   *)
(* only when no operator is pending: with one pending it calls operate     *)
(* with the null next, and Big(null) fails with the invalid number.        *)
(***************************************************************************)
C16_OperatorWithoutOperand == pressed' \in OperatorButtons /\ state.next = Null
C16_LastOperatorWins ==
  [][C16_OperatorWithoutOperand =>
       /\ returned' = Ok([operation |-> pressed'])
       /\ state' = [state EXCEPT !.operation = pressed']]_vars

(***************************************************************************)
(* C17: a digit press appends the digit to next, or starts next with it    *)
(* when next is null, and leaves operation as it was; the update sets      *)
(* total to null exactly when no operator is pending and leaves total as   *)
(* it was when one is.  As stated this fails for 0 pressed while next is   *)
(* "0": the update is then empty and next stays "0".  Amended: that press  *)
(* changes nothing and every other digit press does as stated.             *)
(***************************************************************************)
C17_Digit == pressed' \in DigitButtons
C17_ZeroOnZero == pressed' = <<"0">> /\ state.next = <<"0">>
C17_Appended ==
  /\ returned'.err = NoError
  /\ DOMAIN returned'.val = IF state.operation # Null THEN {"next"} ELSE {"next", "total"}
  /\ state'.next = IF state.next = Null THEN pressed' ELSE state.next \o pressed'
  /\ state'.operation = state.operation
  /\ state'.total = IF state.operation # Null THEN state.total ELSE Null
C17_DigitAppended == [][C17_Digit => C17_Appended]_vars
C17_DigitAppendedButZeroOnZero ==
  [][C17_Digit =>
       IF C17_ZeroOnZero THEN returned' = Ok(NoChange) /\ state' = state
       ELSE C17_Appended]_vars
C17_Witness ==
  /\ pressed = <<"3">>
  /\ keys = <<<<"2">>, <<"+">>, <<"2">>, <<"3">>>>
  /\ returned = Ok([next |-> <<"2", "3">>])
  /\ state = [total |-> <<"2">>, next |-> <<"2", "3">>, operation |-> <<"+">>]

(***************************************************************************)
(* C18: 0 pressed while next is "0" returns the empty update, and next is  *)
(* never a run of two or more zeros.                                       *)
(***************************************************************************)
C18_ZeroRun(str) == Len(str) >= 2 /\ \A i \in 1..Len(str) : str[i] = "0"
C18_NoZeroRun ==
  /\ [](state.next # Null => ~C18_ZeroRun(state.next))
  /\ [][(pressed' = <<"0">> /\ state.next = <<"0">>) =>
          /\ returned' = Ok(NoChange)
          /\ state' = state]_vars
C18_Witness ==
  /\ pressed = <<"0">>
  /\ returned = Ok(NoChange)
  /\ state.next = <<"0">>
  /\ state.operation # Null

(***************************************************************************)
(* C19: next never starts with the digit 0 followed by another digit.  The *)
(* code keeps only a second 0 out: another digit pressed while next is "0" *)
(* is appended to it.                                                      *)
(***************************************************************************)
C19_NoLeadingZero ==
  state.next # Null =>
    ~(Len(state.next) >= 2 /\ state.next[1] = "0" /\ IsDigitChar(state.next[2]))

(***************************************************************************)
(* C20: '.' pressed while next is null makes next "0." when an operator is *)
(* pending, and then total is left as it was; otherwise it appends '.' to  *)
(* total when total is not null, unless total holds one already, and then  *)
(* the update is empty; otherwise it makes total "0.".  operation is never *)
(* changed.                                                                *)
(***************************************************************************)
C20_PointWithoutNext == pressed' = <<".">> /\ state.next = Null
C20_PointStartsOperand ==
  [][C20_PointWithoutNext =>
       /\ returned'.err = NoError
       /\ state'.operation = state.operation
       /\ IF state.operation # Null
          THEN /\ returned'.val = [next |-> <<"0", ".">>]
               /\ state' = [state EXCEPT !.next = <<"0", ".">>]
          ELSE IF state.total # Null
          THEN (IF Includes(state.total, ".")
                THEN returned'.val = NoChange /\ state' = state
                ELSE /\ returned'.val = [total |-> state.total \o <<".">>]
                     /\ state' = [state EXCEPT !.total = state.total \o <<".">>])
          ELSE /\ returned'.val = [total |-> <<"0", ".">>]
               /\ state' = [state EXCEPT !.total = <<"0", ".">>]]_vars
C20_Witness ==
  /\ pressed = <<".">>
  /\ state = [total |-> <<"3">>, next |-> <<"0", ".">>, operation |-> <<"+">>]
  /\ returned = Ok([next |-> <<"0", ".">>])

(***************************************************************************)
(* C21: '=' pressed while next is null or operation is null returns the    *)
(* empty update and total, next and operation stay as they were; so does a *)
(* second '=' right after one that evaluated.                              *)
(***************************************************************************)
C21_NothingPending == pressed' = <<"=">> /\ (state.next = Null \/ state.operation = Null)
C21_EqualsIdle ==
  [][C21_NothingPending =>
       /\ returned' = Ok(NoChange)
       /\ state' = state
       /\ display' = display]_vars
C21_Witness ==
  /\ pressed = <<"=">>
  /\ returned = Ok(NoChange)
  /\ presses = 5
  /\ state = [total |-> <<"5">>, next |-> Null, operation |-> Null]

(***************************************************************************)
(* C22: '+/-' replaces next by the string of its negation when next is not *)
(* null, else total by the string of its negation when total is not null,  *)
(* else returns the empty update; operation and the other operand stay as  *)
(* they were, and a second '+/-' gives back the value of the operand.  The *)
(* code negates the Number that parseFloat reads, so an operand of more    *)
(* digits than a Number holds comes back rounded.                          *)
(***************************************************************************)
C22_Value(str) == parse(str).val
C22_Negation(str) == [C22_Value(str) EXCEPT !.s = 0 - @]
C22_Again(field) == Merge(state', calculateSign(state'))[field]
C22_Negated(field) ==
  /\ returned'.err = NoError
  /\ DOMAIN returned'.val = {field}
  /\ \A other \in DOMAIN state \ {field} : state'[other] = state[other]
  /\ cmp(C22_Value(state'[field]), C22_Negation(state[field])) = 0
  /\ cmp(C22_Value(C22_Again(field)), C22_Value(state[field])) = 0
C22_SignToggled ==
  [][pressed' = <<"+", "/", "-">> =>
       IF state.next # Null THEN C22_Negated("next")
       ELSE IF state.total # Null THEN C22_Negated("total")
       ELSE returned' = Ok(NoChange) /\ state' = state]_vars

C24_Known == {<<"+">>, <<"-">>, <<"x">>, <<"DIVIDE_SIGN">>, <<"%">>}
C24_IsOperation(name) ==
  name # AC /\ ~isNumber(name) /\ name \notin {<<".">>, <<"=">>, <<"+", "/", "-">>}
C24_Stored ==
  (C24_IsOperation(pressed') /\ state.operation = Null) =>
    /\ returned'.err = NoError
    /\ state'.operation = pressed'
C24_UnknownPending == state.operation # Null /\ state.operation \notin C24_Known
C24_Evaluates ==
  \/ pressed' = <<"=">> /\ state.next # Null
  \/ C24_IsOperation(pressed')
C24_OperandsAccepted == parse(state.total).err = NoError /\ parse(state.next).err = NoError
C25_Arithmetic ==
  {<<"plus">>, <<"minus">>, <<"times">>, <<"div">>, <<"mod">>, <<"pow">>,
   <<"sqrt">>, <<"round">>}
C25_SettingsKept ==
  [][called' \in C25_Arithmetic => Big'.DP = Big.DP /\ Big'.RM = Big.RM]_vars


(***************************************************************************)
(* C26: a Big given by construction or by plus, minus, times, div, mod or   *)
(* round is normalized: its digits have no leading zero and no trailing     *)
(* zero unless it is zero, zero has the digits [0] and the exponent 0, and  *)
(* so a Big given by one of these that is equal in value to a nonzero        *)
(* constructed Big has its sign, exponent and digits.                       *)
(***************************************************************************)
C26_Normalized(b) ==
  /\ b.s \in {-1, 1}
  /\ Len(b.c) >= 1
  /\ \A i \in 1..Len(b.c) : b.c[i] \in 0..9
  /\ IF \A i \in 1..Len(b.c) : b.c[i] = 0
     THEN b.c = <<0>> /\ b.e = 0
     ELSE b.c[1] # 0 /\ b.c[Len(b.c)] # 0
C26_Producers ==
  {<<"plus">>, <<"minus">>, <<"times">>, <<"div">>, <<"mod">>, <<"round">>}
C26_ResultsNormalized ==
  /\ C26_Normalized(lhs) /\ C26_Normalized(rhs)
  /\ called \in C26_Producers /\ result.err = NoError =>
       /\ C26_Normalized(result.val)
       /\ \A o \in Operands :
            o.c[1] # 0 /\ cmp(result.val, o) = 0 => result.val = o
C26_Witness ==
  /\ called = <<"div">>
  /\ Big = [DP |-> 0, RM |-> 3]
  /\ stringify(lhs) = <<"7">> /\ stringify(rhs) = <<"0", ".", "7", "7">>
  /\ result = Ok(NewBig(1, 1, <<1>>))


(***************************************************************************)
(* C27: when calculate fails during a press, by a division by zero, an     *)
(* invalid number or an unknown operation, the state keeps the total, next *)
(* and operation it had and the display keeps its value; AC pressed after  *)
(* the failure resets the calculator.                                      *)
(***************************************************************************)
C27_Failures == {DIV_BY_ZERO, INVALID_NUMBER, UNKNOWN_OPERATION}
C27_FailureKeepsState ==
  /\ [][returned'.err \in C27_Failures => state' = state /\ display' = display]_vars
  /\ [][returned.err \in C27_Failures /\ pressed' = AC =>
          /\ returned'.err = NoError
          /\ state' = ClearedState
          /\ display' = <<"0">>]_vars
C27_Witness ==
  /\ pressed = <<"=">>
  /\ returned.err = DIV_BY_ZERO
  /\ state = [total |-> <<"2">>, next |-> <<"0">>, operation |-> <<"DIVIDE_SIGN">>]
  /\ display = <<"0">>


(***************************************************************************)
(* C28: in every state reached by presses, total is present whenever       *)
(* operation is, so that no evaluation by '=' or by a chained operator     *)
(* calls operate with an absent left operand.  As amended, the exception   *)
(* is an operator pressed while total and next are both absent: operation  *)
(* is then present without total until AC, and an evaluation calls operate *)
(* with the absent total and fails with the invalid-number error.          *)
(***************************************************************************)
\* the press in progress evaluates the pending operation
C28_Evaluates ==
  \/ pressed' = <<"=">> /\ Truthy(state.next) /\ Truthy(state.operation)
  \/ pressed' \in OperatorButtons /\ Truthy(state.operation)
C29_Accepted(str) == str # Null => parse(str).err = NoError
C29_Evaluates ==
  /\ state.total # Null /\ state.next # Null /\ state.operation # Null
  /\ pressed' = <<"=">> \/ pressed' \in OperatorButtons
C29_OperandsAccepted ==
  /\ [](C29_Accepted(state.total) /\ C29_Accepted(state.next))
  /\ [][C29_Evaluates => returned'.err # INVALID_NUMBER]_vars


(***************************************************************************)
(* C30: with no operator pending and a total that ends in '.', "0." after  *)
(* '.' on the cleared state or a result followed by '.', a digit press     *)
(* does not continue the total: total becomes null and next is the digit   *)
(* alone, which the display then shows.                                    *)
(***************************************************************************)
C30_PointedTotal ==
  /\ state.operation = Null
  /\ state.total # Null
  /\ state.total[Len(state.total)] = "."
C30_DigitStartsAfresh ==
  [][C30_PointedTotal /\ isNumber(pressed') =>
       /\ returned' = Ok([next |-> pressed', total |-> Null])
       /\ state' = [total |-> Null, next |-> pressed', operation |-> Null]
       /\ display' = pressed']_vars
C30_Witness ==
  /\ pressed = <<"2">>
  /\ presses = 2 /\ keys = Off
  /\ returned = Ok([next |-> <<"2">>, total |-> Null])
  /\ state = [total |-> Null, next |-> <<"2">>, operation |-> Null]
  /\ display = <<"2">>
=============================================================================
